---- MODULE Spec2Model ----
(***************************************************************************)
(* Identity resolution and table routing of the campus portal              *)
(* (src/newstellar/app.py, src/newstellar/config.py).                      *)
(*                                                                         *)
(* Strings that the code inspects character by character (identifiers,     *)
(* passwords) are sequences of one-character strings.  The record store    *)
(* (Supabase REST) is a function from table name to the set of its rows.   *)
(***************************************************************************)
EXTENDS Integers, Sequences, FiniteSets, TLC

VARIABLES
    STUDENT_TABLES,  \* config.STUDENT_TABLES, the student shard list
    store,           \* table name -> set of rows held by the record store
    session,         \* Flask session: session["user"], or NoUser
    pc,              \* position of the login request being served
    username,        \* login_page: email_or_username after strip()
    password,        \* login_page: password after strip()
    shard,           \* index into STUDENT_TABLES of the loop of strategy 4 / 5
    result,          \* value fetch_and_verify_user returns (NoUser for None)
    requestLog,      \* requests that reached the store during the current call
    forbidden,       \* tables for which get_supabase_rest_url raised in the call
    gateway,         \* condition of the link to the store: "up", "flaky", "down"
    response,        \* response of the last request served by login_page
    call,            \* the helper call observed last: by a direct invocation,
                     \* or made by the login request in flight
    inflight         \* signup requests served at the same time: per worker,
                     \* the row it is about to insert once its checks passed

vars == <<STUDENT_TABLES, store, session, pc, username, password, shard,
          result, requestLog, forbidden, gateway, response, call, inflight>>

-----------------------------------------------------------------------------
(* Bounds of the model *)

\* rows the store holds in the initial state, over all tables
MaxRows == 2
\* the same, in the behaviours with a flaky gateway or a changed shard list
MaxRowsSmall == 1
\* rows the teacher table may hold when add_teacher inserts one more
MaxTeachers == 1
\* signup requests served at the same time
MaxWorkers == 2
\* length of the identifiers the helper functions are invoked with
MaxLen == 3
\* queries a flaky gateway fails (transport error, timeout, HTTP status,
\* undecodable body) during one call
MaxGatewayErrors == 1

-----------------------------------------------------------------------------
(* Strings *)

UpperAZ == <<"A","B","C","D","E","F","G","H","I","J","K","L","M",
             "N","O","P","Q","R","S","T","U","V","W","X","Y","Z">>
LowerAZ == <<"a","b","c","d","e","f","g","h","i","j","k","l","m",
             "n","o","p","q","r","s","t","u","v","w","x","y","z">>

LowerChar(c) ==
    IF \E i \in 1..Len(UpperAZ) : UpperAZ[i] = c
    THEN LowerAZ[CHOOSE i \in 1..Len(UpperAZ) : UpperAZ[i] = c]
    ELSE c

\* str.lower()
Lower(s) == [i \in 1..Len(s) |-> LowerChar(s[i])]

\* str.startswith(prefix)
StartsWith(s, prefix) ==
    /\ Len(s) >= Len(prefix)
    /\ SubSeq(s, 1, Len(prefix)) = prefix

RECURSIVE LStrip(_)
LStrip(s) == IF s # <<>> /\ Head(s) = " " THEN LStrip(Tail(s)) ELSE s

RECURSIVE RStrip(_)
RStrip(s) ==
    IF s # <<>> /\ s[Len(s)] = " " THEN RStrip(SubSeq(s, 1, Len(s) - 1)) ELSE s

\* str.strip()
Strip(s) == RStrip(LStrip(s))

Range(f) == {f[i] : i \in DOMAIN f}

\* dict.get(key, default)
Get(d, key, default) == IF key \in DOMAIN d THEN d[key] ELSE default

\* dict.pop(key, None) for each key of keys
Pop(d, keys) == [k \in DOMAIN d \ keys |-> d[k]]

\* d[key] = value for each key of the record upd
Set(d, upd) == [k \in DOMAIN d \cup DOMAIN upd |->
                   IF k \in DOMAIN upd THEN upd[k] ELSE d[k]]

-----------------------------------------------------------------------------
(* Configuration: config.py *)

None == "None"
NoUser == [role |-> "None"]
\* a call of a helper function: its name, its arguments, the value returned
Called(fn, args, ret) == [fn |-> fn, args |-> args, ret |-> ret]
NoCall == Called("", <<>>, None)
\* None / JSON null in a column or form field that holds a string
Null == <<"null">>

ShippedStudentTables == <<"b1", "b2", "b3", "b4">>
TEACHER_TABLE == "teachers"
ADMIN_TABLE == "admins"
COURSE_TABLE == "courses"
GRADES_TABLE == "grades"
EVENTS_TABLE == "events"
HOLIDAYS_TABLE == "holidays"
MARKS_TABLES == {"marks1", "marks2", "marks3", "marks4"}
ATTENDANCE_TABLES == {"attendance1", "attendance2", "attendance3", "attendance4"}
TIMETABLE_TABLE == "timetable"

\* every table the store holds rows of in this model
StoreTables == {"b1", "b2", "b3", "b4", TEACHER_TABLE, ADMIN_TABLE}

-----------------------------------------------------------------------------
(* Helper functions of app.py *)

allowed_tables ==
    Range(STUDENT_TABLES) \cup MARKS_TABLES \cup ATTENDANCE_TABLES \cup
    {TEACHER_TABLE, ADMIN_TABLE, GRADES_TABLE, EVENTS_TABLE, HOLIDAYS_TABLE,
     COURSE_TABLE, TIMETABLE_TABLE}

\* variant: the table name is not checked against the allow-list
get_supabase_rest_url_unchecked(table_name) ==
    [ok |-> TRUE, table |-> table_name]

\* ok = FALSE stands for the ValueError "Access to table ... is not permitted"
get_supabase_rest_url(table_name) ==
    IF table_name \notin allowed_tables
    THEN [ok |-> FALSE, table |-> table_name]
    ELSE [ok |-> TRUE, table |-> table_name]

\* variant: the two-character prefixes tested before the intake-year codes
determine_student_batch_short_prefix_first(roll_no) ==
    IF roll_no = <<>> \/ Len(roll_no) < 2 THEN None
    ELSE LET roll_lower == Lower(roll_no) IN
         IF StartsWith(roll_lower, <<"b","1">>) THEN "b1"
         ELSE IF StartsWith(roll_lower, <<"b","2">>) THEN "b2"
         ELSE IF StartsWith(roll_lower, <<"b","3">>) THEN "b3"
         ELSE IF StartsWith(roll_lower, <<"b","4">>) THEN "b4"
         ELSE None

\* variant: an identifier that matches nothing lands in the first cohort
determine_student_batch_default_b1(roll_no) ==
    IF roll_no = <<>> \/ Len(roll_no) < 2 THEN None
    ELSE LET roll_lower == Lower(roll_no) IN
         IF StartsWith(roll_lower, <<"b","2","5">>) THEN "b1"
         ELSE IF StartsWith(roll_lower, <<"b","2","4">>) THEN "b2"
         ELSE IF StartsWith(roll_lower, <<"b","2","3">>) THEN "b3"
         ELSE IF StartsWith(roll_lower, <<"b","2","2">>) THEN "b4"
         ELSE IF StartsWith(roll_lower, <<"b","2">>) THEN "b2"
         ELSE IF StartsWith(roll_lower, <<"b","3">>) THEN "b3"
         ELSE IF StartsWith(roll_lower, <<"b","4">>) THEN "b4"
         ELSE "b1"

\* variant: the fallback on the first two characters left out
determine_student_batch_no_fallback(roll_no) ==
    IF roll_no = <<>> \/ Len(roll_no) < 2 THEN None
    ELSE LET roll_lower == Lower(roll_no) IN
         IF StartsWith(roll_lower, <<"b","2","5">>) THEN "b1"
         ELSE IF StartsWith(roll_lower, <<"b","2","4">>) THEN "b2"
         ELSE IF StartsWith(roll_lower, <<"b","2","3">>) THEN "b3"
         ELSE IF StartsWith(roll_lower, <<"b","2","2">>) THEN "b4"
         ELSE None

\* variant: the prefixes compared without case folding
determine_student_batch_case_sensitive(roll_no) ==
    IF roll_no = <<>> \/ Len(roll_no) < 2 THEN None
    ELSE IF StartsWith(roll_no, <<"b","2","5">>) THEN "b1"
    ELSE IF StartsWith(roll_no, <<"b","2","4">>) THEN "b2"
    ELSE IF StartsWith(roll_no, <<"b","2","3">>) THEN "b3"
    ELSE IF StartsWith(roll_no, <<"b","2","2">>) THEN "b4"
    ELSE IF StartsWith(roll_no, <<"b","1">>) THEN "b1"
    ELSE IF StartsWith(roll_no, <<"b","2">>) THEN "b2"
    ELSE IF StartsWith(roll_no, <<"b","3">>) THEN "b3"
    ELSE IF StartsWith(roll_no, <<"b","4">>) THEN "b4"
    ELSE None

determine_student_batch(roll_no) ==
    IF roll_no = <<>> \/ Len(roll_no) < 2 THEN None
    ELSE LET roll_lower == Lower(roll_no) IN
         IF StartsWith(roll_lower, <<"b","2","5">>) THEN "b1"
         ELSE IF StartsWith(roll_lower, <<"b","2","4">>) THEN "b2"
         ELSE IF StartsWith(roll_lower, <<"b","2","3">>) THEN "b3"
         ELSE IF StartsWith(roll_lower, <<"b","2","2">>) THEN "b4"
         ELSE IF StartsWith(roll_lower, <<"b","1">>) THEN "b1"
         ELSE IF StartsWith(roll_lower, <<"b","2">>) THEN "b2"
         ELSE IF StartsWith(roll_lower, <<"b","3">>) THEN "b3"
         ELSE IF StartsWith(roll_lower, <<"b","4">>) THEN "b4"
         ELSE None

get_marks_table_for_student(roll_no) ==
    LET batch == determine_student_batch(roll_no)
    IN  IF batch = "b1" THEN "marks1"
        ELSE IF batch = "b2" THEN "marks2"
        ELSE IF batch = "b3" THEN "marks3"
        ELSE IF batch = "b4" THEN "marks4"
        ELSE None

\* variant: the fourth-year cohort left without an attendance table
determine_attendance_table_three_years(batch_table) ==
    IF batch_table = "b1" THEN "attendance1"
    ELSE IF batch_table = "b2" THEN "attendance2"
    ELSE IF batch_table = "b3" THEN "attendance3"
    ELSE None

determine_attendance_table(batch_table) ==
    IF batch_table = "b1" THEN "attendance1"
    ELSE IF batch_table = "b2" THEN "attendance2"
    ELSE IF batch_table = "b3" THEN "attendance3"
    ELSE IF batch_table = "b4" THEN "attendance4"
    ELSE None

year_map == [b \in {"b1", "b2", "b3", "b4"} |->
                CASE b = "b1" -> 1 [] b = "b2" -> 2 [] b = "b3" -> 3 [] b = "b4" -> 4]

\* variant: June counted with the odd semester
get_current_semester_from_june(student_batch, current_month) ==
    IF student_batch \notin DOMAIN year_map
    THEN None
    ELSE LET student_year == year_map[student_batch]
         IN  IF 6 <= current_month /\ current_month <= 12
             THEN student_year * 2 - 1
             ELSE student_year * 2

get_current_semester(student_batch, current_month) ==
    IF student_batch \notin DOMAIN year_map
    THEN None
    ELSE LET student_year == year_map[student_batch]
         IN  IF 7 <= current_month /\ current_month <= 12
             THEN student_year * 2 - 1
             ELSE student_year * 2

-----------------------------------------------------------------------------
(* Credential verifier: werkzeug.security as used by app.py *)

PBKDF2 == "pbkdf2:sha256"

\* the digest of a password under a salt: one-way, so kept symbolic
Digest(salt, pw) == <<"hmac", salt, pw>>

\* generate_password_hash(password): "method$salt$digest"
generate_password_hash(pw) == <<PBKDF2, "salt", Digest("salt", pw)>>

\* variant: any well-formed hash is accepted
check_password_hash_any(pwhash, pw) == Len(pwhash) = 3

\* variant: a row without a stored hash is let in
check_password_hash_empty_matches(pwhash, pw) ==
    \/ pwhash = <<>>
    \/ Len(pwhash) = 3 /\ pwhash[3] = Digest(pwhash[2], pw)

\* check_password_hash(pwhash, password): a hash with fewer than three
\* "$"-separated parts (the empty string included) never matches
check_password_hash(pwhash, pw) ==
    /\ Len(pwhash) = 3
    /\ pwhash[3] = Digest(pwhash[2], pw)

-----------------------------------------------------------------------------
(* The record store *)

RollA  == <<"b","2","5","1","2","3","4","5">>
T1     == <<"t","1">>
Admin1 == <<"a","d","m","i","n","1">>
E1     == <<"e","@","x">>
E2     == <<"f","@","x">>
P1     == <<"p","a","s","s","w","o","r","d">>
P2     == <<"l","e","t","m","e","i","n","2">>

Hashes == {generate_password_hash(P1), generate_password_hash(P2)}

\* rows of a student shard: the columns signup_page inserts
StudentRows ==
    [roll_no : {RollA}, student_name : {<<"A","s","h","a">>}, student_email : {E1},
     student_password : {generate_password_hash(P1)}, parent_email : {E1},
     parent_password : Hashes]

\* the serial primary key of the teacher rows of the initial store
TeacherIdOf(u, h) ==
    (IF u = RollA THEN 1 ELSE 3) + (IF h = generate_password_hash(P1) THEN 0 ELSE 1)

\* rows of the teacher table: the columns add_teacher inserts, and the key
\* update_teacher and delete_teacher select by
TeacherRows ==
    {[teacher_id |-> TeacherIdOf(u, h), username |-> u,
      teacher_name |-> <<"R","a","o">>, department |-> <<"C","S">>, teacher_email |-> E1, teacher_password |-> h] :
        u \in {RollA, T1}, h \in Hashes}

\* rows of the admin table: the columns strategy 3 reads
AdminRows == [username : {Admin1}, password : Hashes]

\* a credential column that holds no hash: the empty string, null, or no
\* such key in the row
Blank(rows, field) ==
    {Set(r, [f \in {field} |-> <<>>]) : r \in rows} \cup
    {Set(r, [f \in {field} |-> Null]) : r \in rows} \cup
    {Pop(r, {field}) : r \in rows}

\* rows that lack the hash one of the strategies verifies
BlankPlacements ==
    ({"b1", "b2"} \X (Blank(StudentRows, "student_password") \cup
                      Blank(StudentRows, "parent_password"))) \cup
    ({TEACHER_TABLE} \X Blank(TeacherRows, "teacher_password")) \cup
    ({ADMIN_TABLE} \X Blank(AdminRows, "password"))

Placements ==
    (Range(ShippedStudentTables) \X StudentRows) \cup
    ({TEACHER_TABLE} \X TeacherRows) \cup ({ADMIN_TABLE} \X AdminRows)

RECURSIVE SubsetsUpTo(_, _)
SubsetsUpTo(S, k) ==
    IF k = 0 THEN {{}}
    ELSE LET smaller == SubsetsUpTo(S, k - 1)
         IN  smaller \cup {s \cup {x} : s \in smaller, x \in S}

StoreOf(P) == [t \in StoreTables |-> {p[2] : p \in {q \in P : q[1] = t}}]

\* filter "field=eq.value" of a GET on a table
Select(table, field, value) == {r \in store[table] : r[field] = value}

GatewayErrors == Cardinality({i \in DOMAIN requestLog : ~requestLog[i].ok})

\* responses requests.get may produce: the matching rows, or a failure
\* (exception, raise_for_status, undecodable body).  A gateway that is up
\* answers, one that is down fails every query, a flaky one fails some.
Fetch(table, field, value) ==
    (IF gateway # "down"
     THEN {[ok |-> TRUE, data |-> Select(table, field, value)]} ELSE {}) \cup
    (IF \/ gateway = "down"
        \/ gateway = "flaky" /\ GatewayErrors < MaxGatewayErrors
     THEN {[ok |-> FALSE, data |-> {}]} ELSE {})

GetRequest(table, field, value, resp) ==
    [method |-> "GET", table |-> table, field |-> field, value |-> value,
     ok |-> resp.ok]

-----------------------------------------------------------------------------
(* fetch_and_verify_user *)

\* variant: the teacher block placed before the student block
Strategies_teacher_first == <<"s2", "s1", "s3", "s4", "s5">>

\* the five blocks of fetch_and_verify_user, in program order
Strategies == <<"s1", "s2", "s3", "s4", "s5">>

NextStrategy(p) ==
    LET k == CHOOSE i \in DOMAIN Strategies : Strategies[i] = p
    IN  IF k < Len(Strategies) THEN Strategies[k + 1] ELSE "ret"

\* variant: the loop over the shards is left after its first iteration
Continue_first_shard_only(p, i) == <<NextStrategy(p), 1>>

\* "for batch_table in STUDENT_TABLES" of strategies 4 and 5; the other
\* strategies make a single attempt
Continue(p, i) ==
    IF p \in {"s4", "s5"} /\ i < Len(STUDENT_TABLES)
    THEN <<p, i + 1>>
    ELSE <<NextStrategy(p), 1>>

\* variant: the "return user_data" of a verified match left out
Advance_no_return(p, i, onerow, verified) == Continue(p, i)

\* variant: a single matching row ends the parent scan, verified or not
Advance_stop_at_row(p, i, onerow, verified) ==
    IF verified THEN <<"ret", 1>>
    ELSE IF onerow /\ p = "s4" THEN <<NextStrategy(p), 1>>
    ELSE Continue(p, i)

\* control flow after one attempt: "return user_data" when the password
\* verified, otherwise fall out of the if-blocks to the next attempt
Advance(p, i, onerow, verified) ==
    IF verified THEN <<"ret", 1>> ELSE Continue(p, i)

\* variant: an exception ends the whole call
Swallow_abort(p, i) == <<"ret", 1>>

\* variant: the failed attempt is made again
Swallow_retry(p, i) == <<p, i>>

\* "except Exception as e: print(...)": the attempt ends, the scan goes on
Swallow(p, i) == Continue(p, i)

\* variant: the length test left out
OneRow_nonempty(data) == data # {}

\* "if data and len(data) == 1"
OneRow(data) == data # {} /\ Cardinality(data) = 1

TheRow(data) == CHOOSE r \in data : TRUE

\* variant: only student_password is popped
student_identity_keeps_parent_hash(user_data, batch_table, username_lower) ==
    Set(Pop(user_data, {"student_password"}),
        [role |-> "student", batch |-> batch_table,
         roll_no |-> Get(user_data, "roll_no", username_lower)])

student_identity(user_data, batch_table, username_lower) ==
    Set(Pop(user_data, {"student_password", "parent_password"}),
        [role |-> "student", batch |-> batch_table,
         roll_no |-> Get(user_data, "roll_no", username_lower)])

\* variant: the teacher identity given the first shard as its batch
teacher_identity_with_batch(user_data, username_lower) ==
    Set(Pop(user_data, {"teacher_password"}),
        [role |-> "teacher", batch |-> "b1",
         username |-> Get(user_data, "username", username_lower)])

teacher_identity(user_data, username_lower) ==
    Set(Pop(user_data, {"teacher_password"}),
        [role |-> "teacher",
         username |-> Get(user_data, "username", username_lower)])

admin_identity(user_data) ==
    Set(Pop(user_data, {"password"}), [role |-> "admin"])

\* variant: the parent identity given the first shard as its batch
parent_identity_first_shard(parent_data, batch_table) ==
    [role |-> "parent", parent_email |-> parent_data.parent_email,
     student_roll_no |-> parent_data.roll_no,
     student_name |-> parent_data.student_name, batch |-> STUDENT_TABLES[1]]

parent_identity(parent_data, batch_table) ==
    [role |-> "parent", parent_email |-> parent_data.parent_email,
     student_roll_no |-> parent_data.roll_no,
     student_name |-> parent_data.student_name, batch |-> batch_table]

\* the session object strategy k builds from the single row it verified
BuildIdentity(k, row, batch_table, username_lower) ==
    CASE k = 1 -> student_identity(row, batch_table, username_lower)
      [] k = 2 -> teacher_identity(row, username_lower)
      [] k = 3 -> admin_identity(row)
      [] k = 4 -> parent_identity(row, batch_table)
      [] k = 5 -> student_identity(row, batch_table, Null)

\* the one row holds null in the password column: check_password_hash(None,
\* password) raises AttributeError inside the try block
HashIsNull(data, pwfield) ==
    OneRow(data) /\ Get(TheRow(data), pwfield, <<>>) = Null

\* one attempt of strategy k: validate the table, query the shard, require
\* exactly one row, verify the password column against the candidate
Attempt(k, table, field, pwfield) ==
    LET username_lower == Lower(username)
        url == get_supabase_rest_url(table)
    IN  IF ~url.ok
        THEN \* ValueError raised inside the try block
             /\ forbidden' = forbidden \cup {table}
             /\ pc' = Swallow(pc, shard)[1]
             /\ shard' = Swallow(pc, shard)[2]
             /\ UNCHANGED <<result, requestLog>>
        ELSE \E resp \in Fetch(url.table, field, username_lower) :
             /\ requestLog' = Append(requestLog,
                                GetRequest(url.table, field, username_lower, resp))
             /\ UNCHANGED forbidden
             /\ IF ~resp.ok \/ HashIsNull(resp.data, pwfield)
                THEN /\ pc' = Swallow(pc, shard)[1]
                     /\ shard' = Swallow(pc, shard)[2]
                     /\ UNCHANGED result
                ELSE LET data == resp.data
                         verified ==
                             /\ OneRow(data)
                             /\ check_password_hash(
                                    Get(TheRow(data), pwfield, <<>>), password)
                         nxt == Advance(pc, shard, OneRow(data), verified)
                     IN  /\ pc' = nxt[1]
                         /\ shard' = nxt[2]
                         /\ result' =
                              IF verified
                              THEN BuildIdentity(k, TheRow(data), table,
                                                 username_lower)
                              ELSE result

\* variant: without a derived cohort the first shard is looked into
Strategy1_default_shard ==
    /\ pc = "s1"
    /\ LET batch_table == determine_student_batch(Lower(username))
       IN  /\ call' = Called("determine_student_batch", <<Lower(username)>>,
                             batch_table)
           /\ Attempt(1, IF batch_table = None THEN STUDENT_TABLES[1] ELSE batch_table,
                      "roll_no", "student_password")
    /\ UNCHANGED <<inflight, STUDENT_TABLES, store, session, username, password, gateway,
                   response>>

\* 1. student shard derived from the roll number
Strategy1 ==
    /\ pc = "s1"
    /\ LET batch_table == determine_student_batch(Lower(username))
       IN  /\ call' = Called("determine_student_batch", <<Lower(username)>>,
                             batch_table)
           /\ IF batch_table = None
              THEN /\ pc' = Continue(pc, shard)[1]
                   /\ shard' = Continue(pc, shard)[2]
                   /\ UNCHANGED <<result, requestLog, forbidden>>
              ELSE Attempt(1, batch_table, "roll_no", "student_password")
    /\ UNCHANGED <<inflight, STUDENT_TABLES, store, session, username, password, gateway,
                   response>>

\* 2. teacher table by username
Strategy2 ==
    /\ pc = "s2"
    /\ Attempt(2, TEACHER_TABLE, "username", "teacher_password")
    /\ UNCHANGED <<inflight, STUDENT_TABLES, store, session, username, password, gateway,
                   response, call>>

\* 3. admin table by username
Strategy3 ==
    /\ pc = "s3"
    /\ Attempt(3, ADMIN_TABLE, "username", "password")
    /\ UNCHANGED <<inflight, STUDENT_TABLES, store, session, username, password, gateway,
                   response, call>>

\* variant: strategy 4 verifies the student's hash of the row
Strategy4_student_password ==
    /\ pc = "s4"
    /\ Attempt(4, STUDENT_TABLES[shard], "parent_email", "student_password")
    /\ UNCHANGED <<inflight, STUDENT_TABLES, store, session, username, password, gateway,
                   response, call>>

\* 4. parent by parent_email, one iteration of the loop over STUDENT_TABLES
Strategy4 ==
    /\ pc = "s4"
    /\ Attempt(4, STUDENT_TABLES[shard], "parent_email", "parent_password")
    /\ UNCHANGED <<inflight, STUDENT_TABLES, store, session, username, password, gateway,
                   response, call>>

\* 5. student by student_email, one iteration of the loop over STUDENT_TABLES
Strategy5 ==
    /\ pc = "s5"
    /\ Attempt(5, STUDENT_TABLES[shard], "student_email", "student_password")
    /\ UNCHANGED <<inflight, STUDENT_TABLES, store, session, username, password, gateway,
                   response, call>>

-----------------------------------------------------------------------------
(* login_page and logout *)

Redirect(flash, target) == [status |-> 302, flash |-> flash, target |-> target]
Render(flash, target) == [status |-> 200, flash |-> flash, target |-> target]

\* variant: any logged-in user passes, whatever the required role
login_required_any_role(roles) ==
    IF session = NoUser THEN "login_page" ELSE "run"

\* login_required(role): where the decorator sends the request
login_required(roles) ==
    IF session = NoUser THEN "login_page"
    ELSE IF roles # {} /\ Get(session, "role", None) \notin roles THEN "index"
    ELSE "run"

\* the redirect of a request the decorator turned away
login_required_response(roles) ==
    IF login_required(roles) = "login_page"
    THEN Redirect("Please log in to access this page.", "login_page")
    ELSE Redirect("Access denied.", "index")

\* no response produced yet for the request in flight
NoResponse == [status |-> 0, flash |-> "", target |-> ""]

login_missing_response ==
    [status |-> 200, flash |-> "Username/Email and password are required.",
     target |-> "login.html"]

\* variant: the 401 status left out
login_failed_response_200 ==
    [status |-> 200, flash |-> "Invalid credentials. Please try again.",
     target |-> "login.html"]

login_failed_response ==
    [status |-> 401, flash |-> "Invalid credentials. Please try again.",
     target |-> "login.html"]

login_success_response(user_data) ==
    LET role == Get(user_data, "role", None)
    IN  [status |-> 302, flash |-> "Welcome back",
         target |-> IF role = "admin" THEN "admin_dashboard"
                    ELSE IF role = "parent" THEN "parent_dashboard"
                    ELSE "index"]

\* what a client may type into the login form
FormNames == {<<"B","2","5","1","2","3","4","5">>, T1, Admin1, <<" ">> \o E1, <<>>}
FormPasswords == {P1, P2 \o <<" ">>}

\* POST /login up to the call of fetch_and_verify_user, for the names and
\* passwords the clients type
LoginPostFrom(names, passwords) ==
    /\ pc = "idle"
    /\ \E name \in names, pw \in passwords :
        LET email_or_username == Strip(name)
            pwd == Strip(pw)
        IN  IF email_or_username = <<>> \/ pwd = <<>>
            THEN /\ response' = login_missing_response
                 /\ UNCHANGED <<pc, username, password>>
            ELSE /\ username' = email_or_username
                 /\ password' = pwd
                 /\ pc' = Strategies[1]
                 /\ response' = NoResponse
    /\ shard' = 1
    /\ result' = NoUser
    /\ requestLog' = <<>>
    /\ forbidden' = {}
    /\ call' = NoCall
    /\ UNCHANGED <<inflight, STUDENT_TABLES, store, session, gateway>>

LoginPost == LoginPostFrom(FormNames, FormPasswords)

\* variant: a failed login drops the identity of the session
LoginRespond_clears_on_failure ==
    /\ pc = "ret"
    /\ session' = result
    /\ response' = IF result # NoUser THEN login_success_response(result)
                   ELSE login_failed_response
    /\ pc' = "idle"
    /\ username' = <<>>
    /\ password' = <<>>
    /\ shard' = 1
    /\ result' = NoUser
    /\ requestLog' = <<>>
    /\ forbidden' = {}
    /\ call' = NoCall
    /\ UNCHANGED <<inflight, STUDENT_TABLES, store, gateway>>

\* POST /login after fetch_and_verify_user returned
LoginRespond ==
    /\ pc = "ret"
    /\ IF result # NoUser
       THEN /\ session' = result
            /\ response' = login_success_response(result)
       ELSE /\ response' = login_failed_response
            /\ UNCHANGED session
    /\ pc' = "idle"
    /\ username' = <<>>
    /\ password' = <<>>
    /\ shard' = 1
    /\ result' = NoUser
    /\ requestLog' = <<>>
    /\ forbidden' = {}
    /\ call' = NoCall
    /\ UNCHANGED <<inflight, STUDENT_TABLES, store, gateway>>

logout_response ==
    [status |-> 302, flash |-> "You have been logged out.", target |-> "login_page"]

\* GET /logout, behind login_required()
Logout ==
    /\ pc = "idle"
    /\ IF login_required({}) # "run"
       THEN /\ response' = login_required_response({})
            /\ UNCHANGED session
       ELSE /\ session' = NoUser
            /\ response' = logout_response
    /\ call' = NoCall
    /\ UNCHANGED <<inflight, STUDENT_TABLES, store, pc, username, password, shard,
                   result, requestLog, forbidden, gateway>>

-----------------------------------------------------------------------------
(* Other handlers that reach the store: signup_page and the teacher admin  *)
(* pages.  Each is served as a whole while no login request is in flight.  *)

\* how the store may answer the requests of one handler: "ok", "exception"
\* (requests raises, or the body cannot be decoded), "status" (HTTP error)
GatewayOutcomes ==
    IF gateway = "up" THEN {"ok"}
    ELSE IF gateway = "down" THEN {"exception"}
    ELSE {"ok", "exception", "status"}

WithinErrorBudget(o) ==
    gateway = "flaky" => Cardinality({i \in DOMAIN o : o[i] # "ok"}) <= MaxGatewayErrors

Request(method, table, field, value, outcome) ==
    [method |-> method, table |-> table, field |-> field, value |-> value,
     ok |-> (outcome = "ok")]

\* what a visitor may type into the signup form
SignupForms ==
    [roll_no : {<<" ","B","2","5","1","2","3","4","5">>, <<"b","2","2","1">>,
                <<"x","9">>},
     student_name : {<<"R","a","v","i">>},
     student_email : {<<"F","@","x">>},
     student_password : {P1, <<"s","h","o","r","t">>},
     confirm_password : {P1},
     parent_email : {E1},
     parent_password : {P2}]

\* POST /signup, for the forms the visitors submit
SignupFrom(forms) ==
    /\ pc = "idle"
    /\ \E form \in forms, o \in [1..4 -> GatewayOutcomes] :
        LET roll_no == Lower(Strip(form.roll_no))
            student_name == Strip(form.student_name)
            student_email == Lower(Strip(form.student_email))
            pwd == Strip(form.student_password)
            confirm_password == Strip(form.confirm_password)
            parent_email == Lower(Strip(form.parent_email))
            parent_password == Strip(form.parent_password)
            batch_table == determine_student_batch(roll_no)
            url_check == get_supabase_rest_url(batch_table)
            checks == <<<<"roll_no", roll_no>>, <<"student_email", student_email>>,
                        <<"parent_email", parent_email>>>>
            \* the three GETs are sent in turn; the first exception ends them
            sent == {i \in 1..3 : \A j \in 1..(i - 1) : o[j] # "exception"}
            gets == [i \in 1..Cardinality(sent) |->
                        Request("GET", batch_table, checks[i][1], checks[i][2], o[i])]
            found(i) == o[i] = "ok" /\ Select(batch_table, checks[i][1], checks[i][2]) # {}
            new_student_data ==
                [roll_no |-> roll_no, student_name |-> student_name,
                 student_email |-> student_email,
                 student_password |-> generate_password_hash(pwd),
                 parent_email |-> parent_email,
                 parent_password |-> generate_password_hash(parent_password)]
            post == Request("POST", batch_table, "", roll_no, o[4])
            reject(flash) ==
                /\ response' = Render(flash, "signup.html")
                /\ UNCHANGED <<store, requestLog, forbidden>>
        IN  /\ WithinErrorBudget(o)
            /\ IF <<>> \in {roll_no, student_name, student_email, pwd,
                            confirm_password, parent_email, parent_password}
               THEN reject("All fields (including parent details) are required.")
               ELSE IF pwd # confirm_password
               THEN reject("Student passwords do not match.")
               ELSE IF Len(pwd) < 8
               THEN reject("Student password must be at least 8 characters long.")
               ELSE IF Len(parent_password) < 8
               THEN reject("Parent password must be at least 8 characters long.")
               ELSE IF batch_table = None
               THEN reject("Invalid Roll Number format or year. Must start with b22, b23, b24, or b25.")
               ELSE IF ~url_check.ok
               THEN /\ forbidden' = {batch_table}
                    /\ requestLog' = <<>>
                    /\ response' = Render("Access to table is not permitted.", "signup.html")
                    /\ UNCHANGED store
               ELSE IF \E i \in 1..3 : o[i] = "exception"
               THEN /\ requestLog' = gets
                    /\ forbidden' = {}
                    /\ response' = Render("Could not verify user existence. Please try again.", "signup.html")
                    /\ UNCHANGED store
               ELSE IF \E i \in 1..3 : found(i)
               THEN /\ requestLog' = gets
                    /\ forbidden' = {}
                    /\ response' = Render(
                          IF found(1) THEN "Roll number is already registered."
                          ELSE IF found(2) THEN "Email is already registered."
                          ELSE "Parent Email is already registered.", "signup.html")
                    /\ UNCHANGED store
               ELSE /\ requestLog' = Append(gets, post)
                    /\ forbidden' = {}
                    /\ IF o[4] = "ok"
                       THEN /\ store' = [store EXCEPT ![batch_table] = @ \cup {new_student_data}]
                            /\ response' = Redirect("Account created successfully! Please log in.", "login_page")
                       ELSE /\ response' = Render("Signup failed due to a network or server error. Please try again.", "signup.html")
                            /\ UNCHANGED store
    /\ call' = NoCall
    /\ UNCHANGED <<inflight, STUDENT_TABLES, session, pc, username, password, shard,
                   result, gateway>>

Signup == SignupFrom(SignupForms)

\* signup_page served by several workers at once: the requests of a worker
\* are sent in program order, those of different workers interleave

Workers == 1..MaxWorkers

\* a worker that serves no signup
NoSignup == [stage |-> "none"]

\* the forms submitted at the same time: one roll number, two e-mail addresses
ConcurrentSignupForms ==
    [roll_no : {<<"b","2","2","1">>},
     student_name : {<<"R","a","v","i">>},
     student_email : {<<"F","@","x">>, <<"g","@","x">>},
     student_password : {P1},
     confirm_password : {P1},
     parent_email : {E1},
     parent_password : {P2}]

\* POST /signup up to the end of the existence checks (app.py 445-503)
SignupCheck(w) ==
    /\ inflight[w] = NoSignup
    /\ \E form \in ConcurrentSignupForms, o \in [1..3 -> GatewayOutcomes] :
        LET roll_no == Lower(Strip(form.roll_no))
            student_name == Strip(form.student_name)
            student_email == Lower(Strip(form.student_email))
            pwd == Strip(form.student_password)
            confirm_password == Strip(form.confirm_password)
            parent_email == Lower(Strip(form.parent_email))
            parent_password == Strip(form.parent_password)
            batch_table == determine_student_batch(roll_no)
            url_check == get_supabase_rest_url(batch_table)
            checks == <<<<"roll_no", roll_no>>, <<"student_email", student_email>>,
                        <<"parent_email", parent_email>>>>
            sent == {i \in 1..3 : \A j \in 1..(i - 1) : o[j] # "exception"}
            gets == [i \in 1..Cardinality(sent) |->
                        Request("GET", batch_table, checks[i][1], checks[i][2], o[i])]
            found(i) == o[i] = "ok" /\ Select(batch_table, checks[i][1], checks[i][2]) # {}
            new_student_data ==
                [roll_no |-> roll_no, student_name |-> student_name,
                 student_email |-> student_email,
                 student_password |-> generate_password_hash(pwd),
                 parent_email |-> parent_email,
                 parent_password |-> generate_password_hash(parent_password)]
            reject(flash) ==
                /\ response' = Render(flash, "signup.html")
                /\ UNCHANGED <<requestLog, forbidden, inflight>>
        IN  /\ WithinErrorBudget(o)
            /\ IF <<>> \in {roll_no, student_name, student_email, pwd,
                            confirm_password, parent_email, parent_password}
               THEN reject("All fields (including parent details) are required.")
               ELSE IF pwd # confirm_password
               THEN reject("Student passwords do not match.")
               ELSE IF Len(pwd) < 8
               THEN reject("Student password must be at least 8 characters long.")
               ELSE IF Len(parent_password) < 8
               THEN reject("Parent password must be at least 8 characters long.")
               ELSE IF batch_table = None
               THEN reject("Invalid Roll Number format or year. Must start with b22, b23, b24, or b25.")
               ELSE IF ~url_check.ok
               THEN /\ forbidden' = {batch_table}
                    /\ requestLog' = <<>>
                    /\ response' = Render("Access to table is not permitted.", "signup.html")
                    /\ UNCHANGED inflight
               ELSE IF \E i \in 1..3 : o[i] = "exception"
               THEN /\ requestLog' = gets
                    /\ forbidden' = {}
                    /\ response' = Render("Could not verify user existence. Please try again.", "signup.html")
                    /\ UNCHANGED inflight
               ELSE IF \E i \in 1..3 : found(i)
               THEN /\ requestLog' = gets
                    /\ forbidden' = {}
                    /\ response' = Render(
                          IF found(1) THEN "Roll number is already registered."
                          ELSE IF found(2) THEN "Email is already registered."
                          ELSE "Parent Email is already registered.", "signup.html")
                    /\ UNCHANGED inflight
               ELSE /\ requestLog' = gets
                    /\ forbidden' = {}
                    /\ inflight' = [inflight EXCEPT ![w] =
                                      [stage |-> "checked", table |-> batch_table,
                                       row |-> new_student_data]]
                    /\ UNCHANGED response
    /\ UNCHANGED <<STUDENT_TABLES, store, session, pc, username, password, shard,
                   result, gateway, call>>

\* the rest of POST /signup: hash, insert, answer (app.py 505-527)
SignupInsert(w) ==
    /\ inflight[w] # NoSignup
    /\ \E o \in GatewayOutcomes :
        /\ requestLog' = <<Request("POST", inflight[w].table, "",
                                   inflight[w].row.roll_no, o)>>
        /\ IF o = "ok"
           THEN /\ store' = [store EXCEPT ![inflight[w].table] = @ \cup {inflight[w].row}]
                /\ response' = Redirect("Account created successfully! Please log in.", "login_page")
           ELSE /\ response' = Render("Signup failed due to a network or server error. Please try again.", "signup.html")
                /\ UNCHANGED store
    /\ inflight' = [inflight EXCEPT ![w] = NoSignup]
    /\ UNCHANGED <<STUDENT_TABLES, session, pc, username, password, shard,
                   result, forbidden, gateway, call>>

ConcurrentSignup == \E w \in Workers : SignupCheck(w) \/ SignupInsert(w)

default_password == <<"p","a","s","s","w","o","r","d">>

AddTeacherForms ==
    [username : {<<"t","2">>, <<>>}, teacher_name : {<<"S","e","n">>},
     department : {<<>>}, teacher_email : {<<"S","@","x">>}]

Max(S) == CHOOSE x \in S : \A y \in S : y <= x

\* the serial key the store gives an inserted teacher row
NewTeacherId == 1 + Max({0} \cup {r.teacher_id : r \in store[TEACHER_TABLE]})

\* POST /admin/teachers/add, for the forms the admin submits
AddTeacherFrom(forms) ==
    /\ pc = "idle"
    /\ Cardinality(store[TEACHER_TABLE]) < MaxTeachers
    /\ \E form \in forms, o \in GatewayOutcomes :
        LET uname == Strip(form.username)
            teacher_name == Strip(form.teacher_name)
            department == Strip(form.department)
            teacher_email == Lower(Strip(form.teacher_email))
            new_teacher_data ==
                [teacher_id |-> NewTeacherId, username |-> uname,
                 teacher_name |-> teacher_name,
                 department |-> IF department # <<>> THEN department ELSE Null,
                 teacher_email |-> teacher_email,
                 teacher_password |-> generate_password_hash(default_password)]
            url == get_supabase_rest_url(TEACHER_TABLE)
        IN  IF login_required({"admin"}) # "run"
            THEN /\ response' = login_required_response({"admin"})
                 /\ UNCHANGED <<store, requestLog, forbidden>>
            ELSE IF <<>> \in {uname, teacher_name, teacher_email}
            THEN /\ response' = Redirect("Username, Name, and Email are required.",
                                         "manage_teachers_page")
                 /\ UNCHANGED <<store, requestLog, forbidden>>
            ELSE IF ~url.ok
            THEN /\ forbidden' = {TEACHER_TABLE}
                 /\ requestLog' = <<>>
                 /\ response' = Redirect("Access to table is not permitted.",
                                         "manage_teachers_page")
                 /\ UNCHANGED store
            ELSE /\ requestLog' = <<Request("POST", url.table, "", uname, o)>>
                 /\ forbidden' = {}
                 /\ IF o = "ok"
                    THEN /\ store' = [store EXCEPT ![url.table] = @ \cup {new_teacher_data}]
                         /\ response' = Redirect("Teacher added successfully with a default password!",
                                                 "manage_teachers_page")
                    ELSE /\ response' = Redirect("Adding teacher failed.", "manage_teachers_page")
                         /\ UNCHANGED store
    /\ call' = NoCall
    /\ UNCHANGED <<inflight, STUDENT_TABLES, session, pc, username, password, shard,
                   result, gateway>>

AddTeacher == AddTeacherFrom(AddTeacherForms)

TeacherIds == {1, 2}

UpdateTeacherForms ==
    [teacher_id : TeacherIds, teacher_name : {<<"D","a","s">>, <<>>},
     department : {<<"E","E">>}, teacher_email : {<<"D","@","x">>}]

\* POST /admin/teachers/update
UpdateTeacher ==
    /\ pc = "idle"
    /\ \E form \in UpdateTeacherForms, o \in GatewayOutcomes :
        LET teacher_name == Strip(form.teacher_name)
            department == Strip(form.department)
            teacher_email == Lower(Strip(form.teacher_email))
            update_data ==
                [teacher_name |-> teacher_name,
                 department |-> IF department # <<>> THEN department ELSE Null,
                 teacher_email |-> teacher_email]
            url == get_supabase_rest_url(TEACHER_TABLE)
        IN  IF login_required({"admin"}) # "run"
            THEN /\ response' = login_required_response({"admin"})
                 /\ UNCHANGED <<store, requestLog, forbidden>>
            ELSE IF <<>> \in {teacher_name, teacher_email}
            THEN /\ response' = Redirect("Name and Email are required.", "edit_teacher_page")
                 /\ UNCHANGED <<store, requestLog, forbidden>>
            ELSE IF ~url.ok
            THEN /\ forbidden' = {TEACHER_TABLE}
                 /\ requestLog' = <<>>
                 /\ response' = Redirect("Access to table is not permitted.", "edit_teacher_page")
                 /\ UNCHANGED store
            ELSE /\ requestLog' = <<Request("PATCH", url.table, "teacher_id",
                                            form.teacher_id, o)>>
                 /\ forbidden' = {}
                 /\ IF o = "ok"
                    THEN /\ store' = [store EXCEPT ![url.table] =
                                {IF r.teacher_id = form.teacher_id
                                 THEN Set(r, update_data) ELSE r : r \in @}]
                         /\ response' = Redirect("Teacher updated successfully!",
                                                 "manage_teachers_page")
                    ELSE /\ response' = Redirect("Updating teacher failed.", "edit_teacher_page")
                         /\ UNCHANGED store
    /\ call' = NoCall
    /\ UNCHANGED <<inflight, STUDENT_TABLES, session, pc, username, password, shard,
                   result, gateway>>

\* POST /admin/teachers/delete/<teacher_id>
DeleteTeacher ==
    /\ pc = "idle"
    /\ \E teacher_id \in TeacherIds, o \in GatewayOutcomes :
        LET url == get_supabase_rest_url(TEACHER_TABLE)
        IN  IF login_required({"admin"}) # "run"
            THEN /\ response' = login_required_response({"admin"})
                 /\ UNCHANGED <<store, requestLog, forbidden>>
            ELSE IF ~url.ok
            THEN /\ forbidden' = {TEACHER_TABLE}
                 /\ requestLog' = <<>>
                 /\ response' = Redirect("Access to table is not permitted.",
                                         "manage_teachers_page")
                 /\ UNCHANGED store
            ELSE /\ requestLog' = <<Request("DELETE", url.table, "teacher_id",
                                            teacher_id, o)>>
                 /\ forbidden' = {}
                 /\ IF o = "ok"
                    THEN /\ store' = [store EXCEPT ![url.table] =
                                {r \in @ : r.teacher_id # teacher_id}]
                         /\ response' = Redirect("Teacher deleted successfully.",
                                                 "manage_teachers_page")
                    ELSE /\ response' = Redirect("Deleting teacher failed.",
                                                 "manage_teachers_page")
                         /\ UNCHANGED store
    /\ call' = NoCall
    /\ UNCHANGED <<inflight, STUDENT_TABLES, session, pc, username, password, shard,
                   result, gateway>>

-----------------------------------------------------------------------------
(* Direct invocations of the helper functions, as the pages behind the     *)
(* login make them: the arguments are drawn from bounded sets when the     *)
(* invocation starts (pc = "call"), and the function is applied in a step. *)

Alphabet == {"b", "B", "1", "2", "3", "4", "5", "x"}

RECURSIVE StringsUpTo(_)
StringsUpTo(n) ==
    IF n = 0 THEN {<<>>}
    ELSE LET shorter == StringsUpTo(n - 1)
         IN  shorter \cup {Append(w, c) : w \in shorter, c \in Alphabet}

Identifiers ==
    StringsUpTo(MaxLen) \cup
    {RollA, <<"B","2","5","1","2","3","4","5">>, <<"b","2","6","0","0","1">>,
     <<"B","2","2","9">>, <<"b","2","3","x","1">>, <<"B","2","4","0","7">>}

BatchArguments == {"b1", "b2", "b3", "b4", "b5", "B1", "marks1", "", None}
Months == 1..12

\* the value slot of a call that has not returned
Pending == "pending"

PendingCalls ==
    {Called("determine_student_batch", <<r>>, Pending) : r \in Identifiers} \cup
    {Called("get_marks_table_for_student", <<r>>, Pending) : r \in Identifiers} \cup
    {Called("determine_attendance_table", <<b>>, Pending) : b \in BatchArguments} \cup
    {Called("get_current_semester", <<b, m>>, Pending) :
        b \in BatchArguments, m \in Months}

DetermineStudentBatch ==
    /\ pc = "call"
    /\ call.fn = "determine_student_batch"
    /\ call' = [call EXCEPT !.ret = determine_student_batch(call.args[1])]
    /\ pc' = "done"
    /\ UNCHANGED <<inflight, STUDENT_TABLES, store, session, username, password, shard,
                   result, requestLog, forbidden, gateway, response>>

GetMarksTableForStudent ==
    /\ pc = "call"
    /\ call.fn = "get_marks_table_for_student"
    /\ call' = [call EXCEPT !.ret = get_marks_table_for_student(call.args[1])]
    /\ pc' = "done"
    /\ UNCHANGED <<inflight, STUDENT_TABLES, store, session, username, password, shard,
                   result, requestLog, forbidden, gateway, response>>

DetermineAttendanceTable ==
    /\ pc = "call"
    /\ call.fn = "determine_attendance_table"
    /\ call' = [call EXCEPT !.ret = determine_attendance_table(call.args[1])]
    /\ pc' = "done"
    /\ UNCHANGED <<inflight, STUDENT_TABLES, store, session, username, password, shard,
                   result, requestLog, forbidden, gateway, response>>

GetCurrentSemester ==
    /\ pc = "call"
    /\ call.fn = "get_current_semester"
    /\ call' = [call EXCEPT !.ret = get_current_semester(call.args[1], call.args[2])]
    /\ pc' = "done"
    /\ UNCHANGED <<inflight, STUDENT_TABLES, store, session, username, password, shard,
                   result, requestLog, forbidden, gateway, response>>

-----------------------------------------------------------------------------
(* Specification: the shipped configuration *)

InitCall ==
    /\ session = NoUser
    /\ pc = "idle"
    /\ username = <<>>
    /\ password = <<>>
    /\ shard = 1
    /\ result = NoUser
    /\ requestLog = <<>>
    /\ forbidden = {}
    /\ response = NoResponse
    /\ call = NoCall
    /\ inflight = [c \in Workers |-> NoSignup]

Init ==
    /\ STUDENT_TABLES = ShippedStudentTables
    /\ store \in {StoreOf(P) : P \in SubsetsUpTo(Placements, MaxRows)}
    /\ gateway \in {"up", "down"}
    /\ InitCall

Next ==
    \/ LoginPost
    \/ Strategy1
    \/ Strategy2
    \/ Strategy3
    \/ Strategy4
    \/ Strategy5
    \/ LoginRespond
    \/ Logout

Spec == Init /\ [][Next]_vars

(* Specification: the shipped configuration behind a flaky gateway *)

InitFlaky ==
    /\ STUDENT_TABLES = ShippedStudentTables
    /\ store \in {StoreOf(P) : P \in SubsetsUpTo(Placements, MaxRowsSmall)}
    /\ gateway = "flaky"
    /\ InitCall

SpecFlaky == InitFlaky /\ [][Next]_vars

(* Specification: every handler, under the shipped shard list or under one *)
(* that lacks the first-year shard                                         *)

StudentTableConfigs == {ShippedStudentTables, <<"b2", "b3", "b4">>}

InitConfig ==
    /\ STUDENT_TABLES \in StudentTableConfigs
    /\ store \in {StoreOf(P) : P \in SubsetsUpTo(Placements, MaxRowsSmall)}
    /\ gateway = "up"
    /\ InitCall

NextConfig ==
    \/ LoginPost
    \/ Strategy1
    \/ Strategy2
    \/ Strategy3
    \/ Strategy4
    \/ Strategy5
    \/ LoginRespond
    \/ Logout
    \/ Signup
    \/ AddTeacher
    \/ UpdateTeacher
    \/ DeleteTeacher

SpecConfig == InitConfig /\ [][NextConfig]_vars

(* Specification: the shipped configuration over a store in which rows     *)
(* may lack a credential hash                                              *)

InitBlank ==
    /\ STUDENT_TABLES = ShippedStudentTables
    /\ store \in {StoreOf(P) :
                    P \in SubsetsUpTo(Placements \cup BlankPlacements, MaxRowsSmall)}
    /\ gateway = "up"
    /\ InitCall

SpecBlank == InitBlank /\ [][Next]_vars

(* Specification: an admin account exists; the admin adds, edits and       *)
(* deletes teachers, who then log in under the username the admin entered  *)

T2 == <<"T","2">>
T3 == <<"t","3">>

AdminAddTeacherForms ==
    [username : {T2, T3}, teacher_name : {<<"S","e","n">>},
     department : {<<>>}, teacher_email : {<<"S","@","x">>}]

AdminFormNames == {Admin1, T2, T3}

AdminLoginPost == LoginPostFrom(AdminFormNames, FormPasswords)

AdminAddTeacher == AddTeacherFrom(AdminAddTeacherForms)

InitAdmin ==
    /\ STUDENT_TABLES = ShippedStudentTables
    /\ store \in {StoreOf({<<ADMIN_TABLE, r>>}) : r \in AdminRows}
    /\ gateway = "up"
    /\ InitCall

NextAdmin ==
    \/ AdminLoginPost
    \/ Strategy1
    \/ Strategy2
    \/ Strategy3
    \/ Strategy4
    \/ Strategy5
    \/ LoginRespond
    \/ Logout
    \/ Signup
    \/ AdminAddTeacher
    \/ UpdateTeacher
    \/ DeleteTeacher

SpecAdmin == InitAdmin /\ [][NextAdmin]_vars

(* Specification: the store starts empty and is filled by signup_page; a   *)
(* family registers children of several intake years under one parent      *)
(* e-mail address, and students and parents log in                         *)

Roll22 == <<"b","2","2","1">>
Roll26 == <<"b","2","6","1">>

FamilySignupForms ==
    [roll_no : {<<"B","2","5","1","2","3","4","5">>, Roll22, Roll26, <<"x","9">>},
     student_name : {<<"R","a","v","i">>},
     student_email : {<<"F","@","x">>, <<"g","@","x">>},
     student_password : {P1},
     confirm_password : {P1},
     parent_email : {E1},
     parent_password : {P2}]

FamilyFormNames == {<<"B","2","5","1","2","3","4","5">>, Roll22, E1, E2}

FamilyLoginPost == LoginPostFrom(FamilyFormNames, {P1, P2})

FamilySignup == SignupFrom(FamilySignupForms)

InitSignup ==
    /\ STUDENT_TABLES = ShippedStudentTables
    /\ store = StoreOf({})
    /\ gateway = "up"
    /\ InitCall

NextSignup ==
    \/ FamilyLoginPost
    \/ Strategy1
    \/ Strategy2
    \/ Strategy3
    \/ Strategy4
    \/ Strategy5
    \/ LoginRespond
    \/ Logout
    \/ FamilySignup

SpecSignup == InitSignup /\ [][NextSignup]_vars

(* Specification: signups and one student's logins over a store that       *)
(* starts empty, behind a gateway that fails some requests                 *)

\* one student submits the form again, under another e-mail address
RetrySignupForms == {f \in FamilySignupForms : f.roll_no = Roll22}

RetrySignup == SignupFrom(RetrySignupForms)

StudentLoginPost == LoginPostFrom({Roll22}, {P1})

InitSignupFlaky ==
    /\ STUDENT_TABLES = ShippedStudentTables
    /\ store = StoreOf({})
    /\ gateway = "flaky"
    /\ InitCall

NextSignupFlaky ==
    \/ StudentLoginPost
    \/ Strategy1
    \/ Strategy2
    \/ Strategy3
    \/ Strategy4
    \/ Strategy5
    \/ LoginRespond
    \/ Logout
    \/ RetrySignup

SpecSignupFlaky == InitSignupFlaky /\ [][NextSignupFlaky]_vars

(* Specification: signup requests served at the same time, and a student   *)
(* who logs in by roll number                                              *)

InitConcurrent ==
    /\ STUDENT_TABLES = ShippedStudentTables
    /\ store = StoreOf({})
    /\ gateway = "up"
    /\ InitCall

NextConcurrent ==
    \/ ConcurrentSignup
    \/ StudentLoginPost
    \/ Strategy1
    \/ Strategy2
    \/ Strategy3
    \/ Strategy4
    \/ Strategy5
    \/ LoginRespond
    \/ Logout

SpecConcurrent == InitConcurrent /\ [][NextConcurrent]_vars

(* Specification: a run is either one direct invocation of a helper       *)
(* function, or requests to login and signup over a store that holds one   *)
(* student                                                                 *)

InitHelpers ==
    /\ STUDENT_TABLES = ShippedStudentTables
    /\ store \in {StoreOf({})} \cup {StoreOf({<<"b1", r>>}) : r \in StudentRows}
    /\ gateway = "up"
    /\ session = NoUser
    /\ username = <<>>
    /\ password = <<>>
    /\ shard = 1
    /\ result = NoUser
    /\ requestLog = <<>>
    /\ forbidden = {}
    /\ response = NoResponse
    /\ inflight = [c \in Workers |-> NoSignup]
    /\ \/ pc = "idle" /\ call = NoCall
       \/ pc = "call" /\ call \in PendingCalls

NextHelpers ==
    \/ DetermineStudentBatch
    \/ GetMarksTableForStudent
    \/ DetermineAttendanceTable
    \/ GetCurrentSemester
    \/ Signup
    \/ LoginPost
    \/ Strategy1
    \/ Strategy2
    \/ Strategy3
    \/ Strategy4
    \/ Strategy5
    \/ LoginRespond
    \/ Logout

SpecHelpers == InitHelpers /\ [][NextHelpers]_vars

-----------------------------------------------------------------------------
(* Vocabulary of the properties *)

CallPcs == {"s1", "s2", "s3", "s4", "s5", "ret"}

\* the lookup column, credential column and role of strategy k
LookupField(k) ==
    CASE k = 1 -> "roll_no" [] k = 2 -> "username" [] k = 3 -> "username"
      [] k = 4 -> "parent_email" [] k = 5 -> "student_email"
CredentialField(k) ==
    CASE k = 1 -> "student_password" [] k = 2 -> "teacher_password"
      [] k = 3 -> "password" [] k = 4 -> "parent_password"
      [] k = 5 -> "student_password"
RoleOf(k) ==
    CASE k = 1 -> "student" [] k = 2 -> "teacher" [] k = 3 -> "admin"
      [] k = 4 -> "parent" [] k = 5 -> "student"

\* the shards strategy k looks into, for the identifier of the current call
ShardsOf(k) ==
    CASE k = 1 -> {determine_student_batch(Lower(username))} \ {None}
      [] k = 2 -> {TEACHER_TABLE}
      [] k = 3 -> {ADMIN_TABLE}
      [] k = 4 -> Range(STUDENT_TABLES)
      [] k = 5 -> Range(STUDENT_TABLES)

\* the strategy a logged request belongs to
StrategyOf(req) ==
    CASE req.field = "roll_no" -> 1
      [] req.field = "username" /\ req.table = TEACHER_TABLE -> 2
      [] req.field = "username" /\ req.table = ADMIN_TABLE -> 3
      [] req.field = "parent_email" -> 4
      [] req.field = "student_email" -> 5

ShardIndex(t) == CHOOSE i \in DOMAIN STUDENT_TABLES : STUDENT_TABLES[i] = t

Queried(k, t) ==
    \E i \in DOMAIN requestLog :
        requestLog[i].table = t /\ requestLog[i].field = LookupField(k)

QueryFailed(k, t) ==
    \E i \in DOMAIN requestLog :
        /\ requestLog[i].table = t
        /\ requestLog[i].field = LookupField(k)
        /\ ~requestLog[i].ok

\* the stored hash was generated from the candidate password
HashOfPassword(h, pw) == h = generate_password_hash(pw)

MatchingRows(k, t) == {r \in store[t] : r[LookupField(k)] = Lower(username)}

\* strategy k has, in shard t, exactly one matching row and its credential
\* verifies (a query that failed at the gateway delivered no row)
Yields(k, t) ==
    /\ t \in ShardsOf(k)
    /\ ~QueryFailed(k, t)
    /\ Cardinality(MatchingRows(k, t)) = 1
    /\ \A r \in MatchingRows(k, t) : HashOfPassword(r[CredentialField(k)], password)

StrategyYields(k) == \E t \in ShardsOf(k) : Yields(k, t)

\* the identity carries the key of row r found in shard t by strategy k
FromRow(id, k, t, r) ==
    /\ id.role = RoleOf(k)
    /\ CASE k \in {1, 5} -> id.roll_no = r.roll_no /\ id.batch = t
         [] k \in {2, 3} -> id.username = r.username
         [] k = 4 -> /\ id.student_roll_no = r.roll_no
                     /\ id.parent_email = r.parent_email
                     /\ id.batch = t

\* requests are logged in the fixed order: strategy numbers never decrease,
\* and within a strategy the shards follow STUDENT_TABLES
InFixedOrder ==
    \A i, j \in DOMAIN requestLog :
        (pc \in CallPcs /\ i < j) =>
            \/ StrategyOf(requestLog[i]) < StrategyOf(requestLog[j])
            \/ /\ StrategyOf(requestLog[i]) = StrategyOf(requestLog[j])
               /\ StrategyOf(requestLog[i]) \in {4, 5}
               /\ ShardIndex(requestLog[i].table) < ShardIndex(requestLog[j].table)

-----------------------------------------------------------------------------
(* C1: fetch_and_verify_user tries the strategies in the fixed order          *)
(* student-by-roll-number, teacher, admin, parent-by-parent-email,         *)
(* student-by-email, and the identity it returns comes from the            *)
(* lowest-numbered strategy that has exactly one matching row and a         *)
(* verified password; when the identifier is a roll number that is also a  *)
(* teacher username and the student password verifies, the result is the   *)
(* student and the teacher table is never queried.                          *)
C1_FixedPrecedence ==
    /\ InFixedOrder
    /\ pc = "ret" =>
        /\ IF \E k \in 1..5 : StrategyYields(k)
           THEN LET k0 == CHOOSE k \in 1..5 :
                            /\ StrategyYields(k)
                            /\ \A j \in 1..(k - 1) : ~StrategyYields(j)
                IN  \E t \in ShardsOf(k0) :
                        /\ Yields(k0, t)
                        /\ \E r \in MatchingRows(k0, t) : FromRow(result, k0, t, r)
           ELSE result = NoUser
        /\ StrategyYields(1) =>
            /\ result.role = "student"
            /\ ~Queried(2, TEACHER_TABLE)

\* a roll number that is also a teacher username, both passwords verify
C1_Witness ==
    /\ pc = "ret"
    /\ StrategyYields(1)
    /\ \E r \in store[TEACHER_TABLE] :
        /\ r.username = Lower(username)
        /\ HashOfPassword(r.teacher_password, password)
    /\ result.role = "student"

-----------------------------------------------------------------------------
\* column names that denote a password or its hash, over all table schemas
CredentialFields ==
    {"student_password", "parent_password", "teacher_password", "password"}

(* C2: an identity returned by fetch_and_verify_user, whichever strategy    *)
(* produced it, has no credential field among its keys; neither has the     *)
(* identity kept in the session.                                            *)
C2_NoCredentialInIdentity ==
    /\ DOMAIN result \cap CredentialFields = {}
    /\ DOMAIN session \cap CredentialFields = {}

\* a student identity produced by the e-mail strategy from a full row
C2_Witness ==
    /\ pc = "ret"
    /\ result.role = "student"
    /\ StrategyOf(requestLog[Len(requestLog)]) = 5
    /\ \E r \in store[result.batch] :
        r.roll_no = result.roll_no /\ CredentialFields \cap DOMAIN r # {}

-----------------------------------------------------------------------------
\* every row the identifier of the current call matches under some strategy
RowsMatchingIdentifier ==
    UNION {UNION {MatchingRows(k, t) : t \in ShardsOf(k)} : k \in 1..5}

(* C3: when the candidate password verifies against none of the stored     *)
(* hashes of the rows the identifier matches, fetch_and_verify_user         *)
(* returns None, also when the identifier matches exactly one row of some  *)
(* shard (identifier "admin1" with a password matching no stored hash).    *)
C3_WrongPasswordNotFound ==
    (/\ pc = "ret"
     /\ \A r \in RowsMatchingIdentifier :
            \A f \in DOMAIN r \cap CredentialFields :
                ~HashOfPassword(r[f], password))
    => result = NoUser

\* "admin1" matches exactly one admin row, whose hash is of another password
C3_Witness ==
    /\ pc = "ret"
    /\ username = Admin1
    /\ Cardinality(MatchingRows(3, ADMIN_TABLE)) = 1
    /\ Queried(3, ADMIN_TABLE) /\ ~QueryFailed(3, ADMIN_TABLE)
    /\ \A r \in RowsMatchingIdentifier :
            \A f \in DOMAIN r \cap CredentialFields :
                ~HashOfPassword(r[f], password)
    /\ result = NoUser

-----------------------------------------------------------------------------
(* C4: within one call at most one strategy succeeds: once a strategy has   *)
(* produced a verified match, the only step left is the return to the       *)
(* caller, and no further request is sent to the store.                     *)
C4_ShortCircuit ==
    [][result # NoUser =>
          /\ pc = "ret"
          /\ pc' = "idle"
          /\ \A i \in DOMAIN requestLog' : i \in DOMAIN requestLog]_vars

\* a parent found in one shard while a later shard holds a verifying row too
C4_Witness ==
    /\ pc = "ret"
    /\ result.role = "parent"
    /\ \E t \in Range(STUDENT_TABLES) :
        /\ ShardIndex(t) > ShardIndex(result.batch)
        /\ Yields(4, t)
        /\ ~Queried(4, t)
    /\ StrategyYields(5)

-----------------------------------------------------------------------------
\* the (strategy, shard) pairs a call that finds nothing has to query
AllLookups == UNION {{<<k, t>> : t \in ShardsOf(k)} : k \in 1..5}

(* C5: a gateway failure on a shard query never aborts the call: the       *)
(* failing shard counts as "no match", every remaining shard and strategy  *)
(* is still queried, and a verified match available in a shard whose query *)
(* did not fail is still returned.                                          *)
C5_GatewayErrorSwallowed ==
    (pc = "ret" /\ gateway = "flaky" /\ GatewayErrors > 0) =>
        /\ result = NoUser => \A q \in AllLookups : Queried(q[1], q[2])
        /\ (\E q \in AllLookups : Yields(q[1], q[2])) => result # NoUser

\* the first query of the call failed, a later strategy still found the user
C5_Witness ==
    /\ pc = "ret"
    /\ Len(requestLog) > 1
    /\ ~requestLog[1].ok
    /\ result # NoUser
    /\ StrategyOf(requestLog[Len(requestLog)]) > StrategyOf(requestLog[1])

-----------------------------------------------------------------------------
\* the rows a logged request selected in the store
RowsOf(req) == {r \in store[req.table] : r[req.field] = req.value}

(* C8: a shard query that returns zero rows or more than one row never     *)
(* yields an identity: whenever fetch_and_verify_user returns an identity, *)
(* the request that produced it (the last one of the call) was answered    *)
(* with exactly one row, in every strategy and whatever the password.      *)
C8_ExactlyOneRow ==
    (pc = "ret" /\ result # NoUser) =>
        LET last == requestLog[Len(requestLog)]
        IN  /\ last.ok
            /\ Cardinality(RowsOf(last)) = 1
            /\ result.role = RoleOf(StrategyOf(last))

\* a duplicated key, one of the duplicates with the right password: no login
C8_Witness ==
    /\ pc = "ret"
    /\ result = NoUser
    /\ \E i \in DOMAIN requestLog :
        /\ requestLog[i].ok
        /\ Cardinality(RowsOf(requestLog[i])) > 1
        /\ \E r \in RowsOf(requestLog[i]) :
            HashOfPassword(r[CredentialField(StrategyOf(requestLog[i]))], password)

-----------------------------------------------------------------------------
\* request i is a parent_email query answered with exactly one row whose
\* parent_password does not verify
ParentMismatchAt(i) ==
    /\ requestLog[i].field = "parent_email"
    /\ requestLog[i].ok
    /\ Cardinality(RowsOf(requestLog[i])) = 1
    /\ \A r \in RowsOf(requestLog[i]) : ~HashOfPassword(r.parent_password, password)

(* C9 as stated: in strategy 4, once a shard returns exactly one matching  *)
(* row the scan stops at that shard; if the password fails verification    *)
(* for that row, the remaining shards are not queried for parent_email.    *)
C9_ScanStopsAtFirstRow ==
    \A i, j \in DOMAIN requestLog :
        (i < j /\ requestLog[i].field = "parent_email" /\ requestLog[i].ok
               /\ Cardinality(RowsOf(requestLog[i])) = 1)
        => requestLog[j].field # "parent_email"

(* C9 amended: in strategy 4 the scan stops only at a shard whose single   *)
(* matching row passes verification; when a shard returns exactly one row  *)
(* and the password fails verification for it, the next student shard is   *)
(* still queried for parent_email in that call.                            *)
C9_ScanContinuesAfterMismatch ==
    \A i \in DOMAIN requestLog :
        (ParentMismatchAt(i) /\ ShardIndex(requestLog[i].table) < Len(STUDENT_TABLES))
        => LET nextShard == ShardIndex(requestLog[i].table) + 1
           IN  IF i = Len(requestLog)
               THEN pc = "s4" /\ shard = nextShard
               ELSE /\ requestLog[i + 1].field = "parent_email"
                    /\ requestLog[i + 1].table = STUDENT_TABLES[nextShard]

\* a parent logged in from a later shard after a mismatch in an earlier one
C9_Witness ==
    /\ pc = "ret"
    /\ result.role = "parent"
    /\ \E i \in DOMAIN requestLog :
        /\ ParentMismatchAt(i)
        /\ ShardIndex(requestLog[i].table) < ShardIndex(result.batch)

-----------------------------------------------------------------------------
(* C10: failure is uniform.  Whenever no strategy has one matching row     *)
(* with a verified password (unknown identifier, wrong password, ambiguous *)
(* rows, every query failing at the gateway), fetch_and_verify_user        *)
(* returns None and login_page answers with the same "Invalid credentials" *)
(* message and status 401, leaving the session as it was.                  *)
C10_UniformFailure ==
    [][(pc = "ret" /\ ~\E q \in AllLookups : Yields(q[1], q[2])) =>
          /\ result = NoUser
          /\ response' = [status |-> 401,
                          flash |-> "Invalid credentials. Please try again.",
                          target |-> "login.html"]
          /\ session' = session]_vars

\* a failed attempt answered while a session is open
C10_Witness ==
    /\ pc = "idle"
    /\ response.status = 401
    /\ session # NoUser

-----------------------------------------------------------------------------
(* C6: a forbidden table is fatal to the lookup.  When a query made during *)
(* fetch_and_verify_user targets a table outside the allow-list, the step  *)
(* in which get_supabase_rest_url raises ValueError ends the call: the     *)
(* call neither moves on to another strategy or shard (as if the shard had *)
(* produced no match) nor reaches its normal return.                       *)
C6_ForbiddenTableIsFatal ==
    [][(pc \in CallPcs /\ forbidden' # forbidden) => pc' \notin CallPcs]_vars

-----------------------------------------------------------------------------
(* C7: the allow-list is checked before any request.  Every request that   *)
(* a handler sent to the store (fetch, insert, update or delete) names a   *)
(* table of the allow-list, and a table for which get_supabase_rest_url    *)
(* raised the forbidden-table error is outside the allow-list and has no   *)
(* request in the log of that handler.                                     *)
C7_AllowListBeforeRequest ==
    /\ \A i \in DOMAIN requestLog : requestLog[i].table \in allowed_tables
    /\ \A t \in forbidden :
        /\ t \notin allowed_tables
        /\ \A i \in DOMAIN requestLog : requestLog[i].table # t

\* a lookup that was refused the first-year shard and queried other tables
C7_Witness ==
    /\ pc = "ret"
    /\ forbidden = {"b1"}
    /\ Len(requestLog) > 0
    /\ "b1" \notin allowed_tables

-----------------------------------------------------------------------------
(* Vocabulary of the properties of the helper functions *)

\* a call of fn has returned: directly, or inside the login request in flight
Returned(fn) == call.fn = fn /\ pc # "call"

\* the intake-year codes and the two-character prefixes, with their cohorts
IntakeCohort ==
    {<<<<"b","2","5">>, "b1">>, <<<<"b","2","4">>, "b2">>,
     <<<<"b","2","3">>, "b3">>, <<<<"b","2","2">>, "b4">>}
FallbackCohort ==
    {<<<<"b","1">>, "b1">>, <<<<"b","2">>, "b2">>,
     <<<<"b","3">>, "b3">>, <<<<"b","4">>, "b4">>}

HasPrefixIn(id, table) == \E p \in table : StartsWith(Lower(id), p[1])

\* the cohort the specification assigns to an identifier
CohortOf(id) ==
    IF HasPrefixIn(id, IntakeCohort)
    THEN (CHOOSE p \in IntakeCohort : StartsWith(Lower(id), p[1]))[2]
    ELSE IF HasPrefixIn(id, FallbackCohort)
    THEN (CHOOSE p \in FallbackCohort : StartsWith(Lower(id), p[1]))[2]
    ELSE None

\* cohort, year of study, marks table, attendance table
CohortTables ==
    {<<"b1", 1, "marks1", "attendance1">>, <<"b2", 2, "marks2", "attendance2">>,
     <<"b3", 3, "marks3", "attendance3">>, <<"b4", 4, "marks4", "attendance4">>}
Cohorts == {c[1] : c \in CohortTables}

-----------------------------------------------------------------------------
(* C11: determine_student_batch maps, in any letter case, an identifier    *)
(* starting with b25 to b1, b24 to b2, b23 to b3 and b22 to b4, one cohort *)
(* per intake-year code; and a login under a b25 roll number (such as      *)
(* "B2512345") with the password of the one student row of that roll       *)
(* number returns an identity of role student and batch b1.                *)
C11_IntakeYearCohort ==
    /\ Returned("determine_student_batch") =>
          \A p \in IntakeCohort :
              StartsWith(Lower(call.args[1]), p[1]) => call.ret = p[2]
    /\ \A p, q \in IntakeCohort : p[1] = q[1] => p[2] = q[2]
    /\ (/\ pc = "ret"
        /\ gateway = "up"
        /\ StartsWith(Lower(username), <<"b","2","5">>)
        /\ \E r \in store["b1"] :
              /\ Select("b1", "roll_no", Lower(username)) = {r}
              /\ HashOfPassword(r.student_password, password))
       => /\ result.role = "student"
          /\ result.batch = "b1"
          /\ result.roll_no = Lower(username)

\* the login of the scenario, typed in upper case
C11_Witness ==
    /\ pc = "ret"
    /\ username = <<"B","2","5","1","2","3","4","5">>
    /\ call = Called("determine_student_batch", <<RollA>>, "b1")
    /\ result.role = "student"
    /\ result.batch = "b1"

-----------------------------------------------------------------------------
(* C12: determine_student_batch returns None, and in every case returns a  *)
(* value rather than raising, for a malformed or unrecognized identifier:  *)
(* the empty string, a string of fewer than two characters, a string that  *)
(* starts with none of the recognized prefixes (the intake-year codes and  *)
(* the two-character cohort prefixes).                                     *)
C12_MalformedGivesNone ==
    Returned("determine_student_batch") =>
        /\ call.ret \in Cohorts \cup {None}
        /\ (\/ call.args[1] = <<>>
            \/ Len(call.args[1]) < 2
            \/ ~(HasPrefixIn(call.args[1], IntakeCohort) \/
                 HasPrefixIn(call.args[1], FallbackCohort)))
           => call.ret = None

\* a call with an identifier of an unknown prefix, which returned None
C12_Witness ==
    /\ pc = "done"
    /\ call = Called("determine_student_batch", <<<<"x","2","5">>>>, None)

-----------------------------------------------------------------------------
(* C13: for an identifier that starts with none of b22, b23, b24, b25,     *)
(* determine_student_batch decides on the first two characters: b1, b2,    *)
(* b3, b4 (in any letter case) give that cohort, so "b26001" and "b2" give *)
(* b2, and every other identifier gives None.                              *)
C13_FallbackOnTwoCharacters ==
    (Returned("determine_student_batch") /\ ~HasPrefixIn(call.args[1], IntakeCohort)) =>
        /\ \A p \in FallbackCohort :
              StartsWith(Lower(call.args[1]), p[1]) => call.ret = p[2]
        /\ ~HasPrefixIn(call.args[1], FallbackCohort) => call.ret = None

\* the identifier of a later intake year, classified by its first two characters
C13_Witness ==
    /\ pc = "done"
    /\ call = Called("determine_student_batch", <<<<"b","2","6","0","0","1">>>>, "b2")

-----------------------------------------------------------------------------
(* C14: determine_student_batch is a pure function of the case-folded      *)
(* identifier.  A direct call returns what the function gives for the      *)
(* lower-cased argument and changes nothing else; and the shard strategy 1 *)
(* looks a roll number up in, typed in any letter case, is the shard in    *)
(* which the row of that roll number was stored (by signup_page).          *)
C14_PureOfCaseFolded ==
    [][/\ (pc = "call" /\ call.fn = "determine_student_batch") =>
            /\ call'.ret = determine_student_batch(Lower(call.args[1]))
            /\ call'.ret = CohortOf(call.args[1])
            /\ UNCHANGED <<inflight, STUDENT_TABLES, store, session, username, password,
                           shard, result, requestLog, forbidden, gateway, response>>
       /\ pc = "s1" =>
            /\ call'.ret = determine_student_batch(username)
            /\ \A t \in Range(STUDENT_TABLES) : \A r \in store[t] :
                  r.roll_no = Lower(username) =>
                      /\ call'.ret = t
                      /\ \E i \in DOMAIN requestLog' :
                            /\ requestLog'[i].table = t
                            /\ requestLog'[i].field = "roll_no"]_vars

\* a student who signed up logs in with the roll number in upper case
C14_Witness ==
    /\ pc = "ret"
    /\ username = <<"B","2","5","1","2","3","4","5">>
    /\ result.role = "student"
    /\ \E r \in store["b1"] :
          r.roll_no = Lower(username) /\ r.student_name = <<"R","a","v","i">>

-----------------------------------------------------------------------------
(* C15: every cohort b1..b4 has a marks table (get_marks_table_for_student, *)
(* through the cohort of the roll number) and an attendance table           *)
(* (determine_attendance_table): b_i gets marks_i and attendance_i, never   *)
(* None, and two cohorts never share a table.                               *)
C15_TablesPerCohort ==
    /\ Returned("get_marks_table_for_student") =>
          \A c \in CohortTables :
              CohortOf(call.args[1]) = c[1] /\ Len(call.args[1]) >= 2
                  => call.ret = c[3] /\ call.ret # None
    /\ Returned("determine_attendance_table") =>
          \A c \in CohortTables :
              call.args[1] = c[1] => call.ret = c[4] /\ call.ret # None
    /\ \A c, e \in CohortTables : c[1] # e[1] => c[3] # e[3] /\ c[4] # e[4]

\* the attendance table of the fourth-year cohort
C15_Witness ==
    /\ pc = "done"
    /\ call = Called("determine_attendance_table", <<"b4">>, "attendance4")

-----------------------------------------------------------------------------
(* C16: get_current_semester(b_y, month) is 2y-1 for the months 7..12 and  *)
(* 2y for the months 1..6, always within 1..8, and None for a cohort       *)
(* outside b1..b4.                                                         *)
C16_SemesterOfCohortAndMonth ==
    Returned("get_current_semester") =>
        LET student_batch == call.args[1]
            month == call.args[2]
        IN  /\ \A c \in CohortTables : student_batch = c[1] =>
                  /\ month \in 7..12 => call.ret = 2 * c[2] - 1
                  /\ month \in 1..6 => call.ret = 2 * c[2]
                  /\ call.ret \in 1..8
            /\ student_batch \notin Cohorts => call.ret = None

\* the fourth-year cohort in December
C16_Witness ==
    /\ pc = "done"
    /\ call.fn = "get_current_semester"
    /\ call.args = <<"b4", 12>>
    /\ call.ret = 7

-----------------------------------------------------------------------------
(* C17: fetch_and_verify_user only reads.  No step of the call changes the *)
(* store; every request it sends is a GET; no (strategy, shard) pair is    *)
(* queried twice, a failed query included; one call sends at most 11       *)
(* queries (1 + 1 + 1 + 4 + 4).                                            *)
C17_ReadOnlyResolution ==
    [][(pc \in Range(Strategies)) =>
          (/\ store' = store
           /\ \A i \in DOMAIN requestLog' : requestLog'[i].method = "GET"
           /\ \A i, j \in DOMAIN requestLog' :
                 (/\ StrategyOf(requestLog'[i]) = StrategyOf(requestLog'[j])
                  /\ requestLog'[i].table = requestLog'[j].table) => i = j
           /\ Len(requestLog') <= 11)]_vars

\* a call of eleven queries, one of which failed and was not repeated
C17_Witness ==
    /\ pc = "ret"
    /\ Len(requestLog) = 11
    /\ GatewayErrors > 0

-----------------------------------------------------------------------------
(* C18: when determine_student_batch derives no cohort from the identifier *)
(* strategy 1 is skipped: no shard is queried by roll_no and the first     *)
(* query of the call goes to the teacher table.  When a cohort is derived, *)
(* the first query is the roll_no query of that shard and no other shard   *)
(* is queried by roll_no.                                                  *)
C18_NoCohortSkipsStrategy1 ==
    (pc \in CallPcs \ {"s1"}) =>
        IF CohortOf(username) = None
        THEN /\ \A i \in DOMAIN requestLog : requestLog[i].field # "roll_no"
             /\ requestLog # <<>> => requestLog[1].table = TEACHER_TABLE
        ELSE /\ requestLog # <<>>
             /\ \A i \in DOMAIN requestLog :
                   requestLog[i].field = "roll_no" <=> i = 1
             /\ requestLog[1].table = CohortOf(username)

\* a teacher's login: the first query went to the teacher table
C18_Witness ==
    /\ pc = "ret"
    /\ username = T1
    /\ result.role = "teacher"
    /\ requestLog[1].table = TEACHER_TABLE

-----------------------------------------------------------------------------
(* C19: a returned identity has one role out of student, teacher, admin,   *)
(* parent, the role of the strategy whose request produced it; a student   *)
(* or parent identity has a batch out of b1..b4, the shard in which its    *)
(* row was found; a teacher or admin identity has no batch.                *)
C19_RoleAndCohort ==
    (pc = "ret" /\ result # NoUser) =>
        LET last == requestLog[Len(requestLog)]
        IN  /\ result.role \in {"student", "teacher", "admin", "parent"}
            /\ result.role = RoleOf(StrategyOf(last))
            /\ result.role \in {"student", "parent"} =>
                  /\ "batch" \in DOMAIN result
                  /\ result.batch \in Cohorts
                  /\ result.batch = last.table
                  /\ RowsOf(last) # {}
            /\ result.role \in {"teacher", "admin"} => "batch" \notin DOMAIN result

\* a teacher whose username looks like a roll number logs in
C19_Witness ==
    /\ pc = "ret"
    /\ result.role = "teacher"
    /\ CohortOf(username) = "b1"

-----------------------------------------------------------------------------
(* C20: a matched row whose credential column is empty, null or missing    *)
(* never authenticates: whatever the candidate password, the request that  *)
(* produced a returned identity selected a row that holds a hash.          *)
C20_BlankHashNeverMatches ==
    (pc = "ret" /\ result # NoUser) =>
        LET last == requestLog[Len(requestLog)]
            pwfield == CredentialField(StrategyOf(last))
        IN  \A r \in RowsOf(last) :
                /\ pwfield \in DOMAIN r
                /\ r[pwfield] \notin {<<>>, Null}

\* a call that found only a row without a hash and returned None
C20_Witness ==
    /\ pc = "ret"
    /\ result = NoUser
    /\ \E i \in DOMAIN requestLog :
          /\ requestLog[i].ok
          /\ Cardinality(RowsOf(requestLog[i])) = 1
          /\ \A r \in RowsOf(requestLog[i]) :
                Get(r, CredentialField(StrategyOf(requestLog[i])), <<>>) \in {<<>>, Null}

-----------------------------------------------------------------------------
(* C21: the session identity changes in two ways only.  It is set by       *)
(* login_page to the value fetch_and_verify_user returned, and it is       *)
(* removed by logout; every other step of every handler (a failed login,   *)
(* signup, the teacher pages, a turned-away request) leaves it as it was.  *)
C21_SessionLifecycle ==
    [][session' # session =>
          \/ /\ pc = "ret"
             /\ result # NoUser
             /\ session' = result
          \/ /\ pc = "idle"
             /\ session # NoUser
             /\ session' = NoUser
             /\ response' = logout_response]_vars

\* the admin's identity outlived a handler that wrote to the store
C21_Witness ==
    /\ pc = "idle"
    /\ session # NoUser
    /\ session.role = "admin"
    /\ response.flash = "Teacher added successfully with a default password!"
    /\ store[TEACHER_TABLE] # {}

-----------------------------------------------------------------------------
\* the requests of the log that write to the teacher table
TeacherWrites(log) ==
    {i \in DOMAIN log : log[i].table = TEACHER_TABLE /\ log[i].method # "GET"}

(* C23: the body of a guarded handler runs only for a session whose role   *)
(* the decorator admits.  A step that writes to the teacher table, or      *)
(* sends it an insert, update or delete, is taken with an admin session;   *)
(* logout answers "logged out" only for a session with an identity; with   *)
(* no identity, or another role, the request is redirected and nothing is  *)
(* written.                                                                *)
C23_GuardedHandlers ==
    [][/\ (\/ store'[TEACHER_TABLE] # store[TEACHER_TABLE]
           \/ requestLog' # requestLog /\ TeacherWrites(requestLog') # {})
          => session # NoUser /\ session.role = "admin"
       /\ (response' = logout_response /\ pc = "idle") => session # NoUser
       /\ (pc = "idle" /\ session = NoUser /\ response'.flash = "Please log in to access this page.")
          => UNCHANGED <<store, session, requestLog>>]_vars

\* a logged-in teacher was turned away from the admin pages
C23_Witness ==
    /\ pc = "idle"
    /\ session # NoUser
    /\ session.role = "teacher"
    /\ response = Redirect("Access denied.", "index")

-----------------------------------------------------------------------------
(* C28: after add_teacher succeeded for a username u, in whatever letter   *)
(* case the admin typed it, a login as u with the default password returns *)
(* an identity of role teacher and username u, unless the student strategy *)
(* matched and verified u first.                                           *)
C28_TeacherRoundTrip ==
    (/\ pc = "ret"
     /\ gateway = "up"
     /\ password = default_password
     /\ ~StrategyYields(1)
     /\ \E r \in store[TEACHER_TABLE] :
           /\ r.username = username
           /\ \A q \in store[TEACHER_TABLE] : q.username = username => q = r
           /\ HashOfPassword(r.teacher_password, default_password))
    => /\ result.role = "teacher"
       /\ result.username = username

-----------------------------------------------------------------------------
(* C22: a strategy that scans the student shards is left only when the     *)
(* scan is over.  A query by student_email is sent only after every shard  *)
(* of STUDENT_TABLES was queried by parent_email and none of them gave a   *)
(* verified parent, and fetch_and_verify_user returns None only after      *)
(* every shard was queried by student_email.                               *)
C22_WholeShardSet ==
    pc \in CallPcs =>
        /\ (pc = "s5" \/ \E t \in Range(STUDENT_TABLES) : Queried(5, t))
           => /\ \A t \in Range(STUDENT_TABLES) : Queried(4, t)
              /\ result = NoUser \/ result.role # "parent"
              /\ pc = "s5" => result = NoUser
        /\ (pc = "ret" /\ result = NoUser)
           => \A t \in Range(STUDENT_TABLES) : Queried(5, t)

\* not found, although a shard holds a row for the parent's e-mail address
C22_Witness ==
    /\ pc = "ret"
    /\ result = NoUser
    /\ \E t \in Range(STUDENT_TABLES) : MatchingRows(4, t) # {}
    /\ \A t \in Range(STUDENT_TABLES) : Queried(4, t) /\ Queried(5, t)

-----------------------------------------------------------------------------
\* the password column that belongs to a role
CredentialOfRole(role) ==
    CASE role = "student" -> "student_password"
      [] role = "parent" -> "parent_password"
      [] role = "teacher" -> "teacher_password"
      [] role = "admin" -> "password"

\* the stored rows an identity was built from
RowsOfIdentity(id) ==
    CASE id.role = "student" ->
             {r \in store[id.batch] : r.roll_no = id.roll_no}
      [] id.role = "parent" ->
             {r \in store[id.batch] : /\ r.roll_no = id.student_roll_no
                                      /\ r.parent_email = id.parent_email}
      [] id.role = "teacher" ->
             {r \in store[TEACHER_TABLE] : r.username = id.username}
      [] id.role = "admin" ->
             {r \in store[ADMIN_TABLE] : r.username = id.username}

(* C30: the identity fetch_and_verify_user returns has the role whose      *)
(* password column verified: the candidate password is the one hashed in   *)
(* student_password of the returned row for a student, in parent_password  *)
(* for a parent, in teacher_password for a teacher and in password for an  *)
(* admin.  A password hashed only in the other column of a student row     *)
(* never gives that role.                                                  *)
C30_RoleSpecificCredential ==
    (pc = "ret" /\ result # NoUser) =>
        \E r \in RowsOfIdentity(result) :
            HashOfPassword(r[CredentialOfRole(result.role)], password)

\* a parent was returned for a password the student's column does not hold
C30_Witness ==
    /\ pc = "ret"
    /\ result # NoUser
    /\ result.role = "parent"
    /\ \A r \in RowsOfIdentity(result) :
          /\ HashOfPassword(r.parent_password, password)
          /\ ~HashOfPassword(r.student_password, password)

-----------------------------------------------------------------------------
\* the student rows of the store
AllStudentRows == UNION {store[t] : t \in Range(STUDENT_TABLES)}

(* C24: signup_page inserts no row for a roll number that does not start   *)
(* with b22, b23, b24 or b25: in a store filled by signup_page alone every *)
(* student row has a roll number with one of these four prefixes.          *)
C24_OnlyIntakeYearRolls ==
    \A r \in AllStudentRows : HasPrefixIn(r.roll_no, IntakeCohort)

-----------------------------------------------------------------------------
\* the rows of the store signup_page inserted for roll number r
SignedUp(r) == {row \in AllStudentRows : row.roll_no = Lower(r)}

(* C25: after a successful signup for a roll number that was not yet       *)
(* registered, a login under the roll number (in any letter case) with the *)
(* student's password returns role student, the lower-cased roll number    *)
(* and the cohort of the roll number; and a login under the parent's       *)
(* e-mail address with the parent's password of that signup returns role   *)
(* parent with student_roll_no the lower-cased roll number.                *)
C25_SignupLoginRoundTrip ==
    (pc = "ret" /\ gateway = "up") =>
        \A row \in AllStudentRows :
            Cardinality(SignedUp(row.roll_no)) = 1 =>
                /\ (/\ Lower(username) = row.roll_no
                    /\ HashOfPassword(row.student_password, password))
                   => /\ result.role = "student"
                      /\ result.roll_no = row.roll_no
                      /\ result.batch = determine_student_batch(username)
                /\ (/\ Lower(username) = row.parent_email
                    /\ HashOfPassword(row.parent_password, password))
                   => /\ result.role = "parent"
                      /\ result.student_roll_no = row.roll_no

-----------------------------------------------------------------------------
\* the requests of the log that insert a student row
Inserts == {i \in DOMAIN requestLog : /\ requestLog[i].method = "POST"
                                      /\ requestLog[i].table \in Range(STUDENT_TABLES)}

(* C27: signup_page sends the insert only after the three existence checks *)
(* (roll_no, student_email, parent_email) were all answered successfully:  *)
(* an insert in the log of a request is its fourth entry and follows three *)
(* successful checks; after a failed check nothing is inserted.            *)
C27_InsertOnlyAfterCleanChecks ==
    \A i \in Inserts :
        /\ i = 4
        /\ \A j \in 1..3 : requestLog[j].method = "GET" /\ requestLog[j].ok

-----------------------------------------------------------------------------
\* the number at the end of a table name: marks_i, attendance_i
CohortIndex(table) ==
    CHOOSE y \in 0..4 :
        \/ \E c \in CohortTables : c[2] = y /\ table \in {c[3], c[4]}
        \/ y = 0 /\ \A c \in CohortTables : table \notin {c[3], c[4]}

\* the tables the dashboards read for an identity
MarksTableOf(id) ==
    get_marks_table_for_student(
        IF id.role = "parent" THEN id.student_roll_no ELSE id.roll_no)
AttendanceTableOf(id) == determine_attendance_table(id.batch)

(* C29: when every student row was inserted by signup_page, a student or   *)
(* parent identity returned by a login (strategy 1, 4 or 5) names a roll   *)
(* number and a batch of the same cohort: the marks table derived from the *)
(* roll number and the attendance table derived from the batch are marks_i *)
(* and attendance_i for one i.                                             *)
C29_SameCohortTables ==
    \A id \in {result, session} :
        (id # NoUser /\ id.role \in {"student", "parent"}) =>
            /\ CohortIndex(MarksTableOf(id)) \in 1..4
            /\ CohortIndex(MarksTableOf(id)) = CohortIndex(AttendanceTableOf(id))

\* a parent of a fourth-year student, logged in
C29_Witness ==
    /\ pc = "idle"
    /\ session # NoUser
    /\ session.role = "parent"
    /\ session.batch = "b4"
    /\ MarksTableOf(session) = "marks4"
    /\ AttendanceTableOf(session) = "attendance4"

-----------------------------------------------------------------------------
(* C26: whatever the interleaving of signup requests served at the same    *)
(* time, a student shard never holds two rows with the same roll_no, the   *)
(* same student_email or the same parent_email, so a login by the roll     *)
(* number of a registered student finds exactly one row.                   *)
C26_OneRowPerKey ==
    \A t \in Range(STUDENT_TABLES) :
        \A r, q \in store[t] :
            (\/ r.roll_no = q.roll_no
             \/ r.student_email = q.student_email
             \/ r.parent_email = q.parent_email) => r = q

====
